---- MODULE Spec2Model ----
(***************************************************************************)
(* Maya-MCP command bridge.                                                *)
(*                                                                         *)
(*   src/Client/maya_mcp.py         MayaMCPServer: the socket server that  *)
(*                                  runs inside Maya (accept loop, one     *)
(*                                  handler thread per connection, work    *)
(*                                  deferred to Maya's main thread).       *)
(*   src/Server/maya_mcp/server.py  MayaConnection / get_maya_connection:  *)
(*                                  the connection manager of the MCP      *)
(*                                  adapter process.                       *)
(*                                                                         *)
(* Text is a sequence of tokens, a byte stream a sequence of byte tokens.  *)
(* Every ASCII token is one byte token; the one non-ASCII character of the *)
(* model, U+00E9, is the two bytes C3 A9, so that a read can end between   *)
(* the two bytes of a character.                                           *)
(***************************************************************************)
EXTENDS Naturals, Sequences, FiniteSets

\* ------------------------------------------------------------------ bounds
NumConns == 2      \* TCP connections the model can open
MaxCmds  == 2      \* commands the raw peers send in all
MaxCalls == 3      \* calls the adapter process makes on the connection manager
MaxLoops == 2      \* accept-loop threads alive at a time
MaxOps   == 4      \* start / stop calls made on the server

Conns == 1..NumConns

Loops == 1..MaxLoops

\* ------------------------------------------------------------- JSON values
\* A JSON value is null or an object; an object is the sequence of its member
\* values (for a Command: command, params; for a Response: status, payload).
JNull == [type |-> "null", members |-> <<>>]

JObj(ms) == [type |-> "object", members |-> ms]

\* The command cell of a handler before its first assignment.
Unbound == [type |-> "unbound", members |-> <<>>]

NonAscii == "U+00E9"

Escaped == "\\u00e9"

ObjNames == {"pCube1", NonAscii}

CmdNames == {"about", "get_scene_info", "create_object", "modify_object"}

Cmd(name, p) == JObj(<<name, p>>)

\* The commands a peer sends: every command name, and names of objects with
\* and without a non-ASCII character.
PeerCmds == {Cmd("about", "pCube1"), Cmd("get_scene_info", "pCube1"),
             Cmd("create_object", "pCube1"), Cmd("create_object", NonAscii),
             Cmd("modify_object", "pCube1")}

\* dict.get(key) of a decoded command: member 1 is "command", member 2 "params".
Get(v, i) == IF Len(v.members) >= i THEN v.members[i] ELSE "None"

\* ------------------------------------------------------------------- codec
RECURSIVE MapSeq(_, _)
MapSeq(s, f) == IF s = <<>> THEN <<>> ELSE <<f[Head(s)]>> \o MapSeq(Tail(s), f)

Tokens == CmdNames \cup ObjNames \cup
          {Escaped, "success", "error", "scene_info", "error_dict", "message",
           "None", "enabled"}

EscapeTok == [t \in Tokens |-> IF t = NonAscii THEN Escaped ELSE t]

UnescapeTok == [t \in Tokens |-> IF t = Escaped THEN NonAscii ELSE t]

\* The text of a value with non-ASCII characters written raw (what a peer that
\* serializes with UTF-8 output sends).
RawText(v) == IF v.type = "null" THEN <<"null">>
              ELSE <<"{">> \o v.members \o <<"}">>

\* json.dumps: ensure_ascii is on by default, so a non-ASCII character leaves
\* as its \u escape.
JsonDumps(v) == IF v.type = "null" THEN <<"null">>
                ELSE <<"{">> \o MapSeq(v.members, EscapeTok) \o <<"}">>

\* str.encode('utf-8')
RECURSIVE Utf8Encode(_)
Utf8Encode(text) ==
    IF text = <<>> THEN <<>>
    ELSE (IF Head(text) = NonAscii THEN <<"xC3", "xA9">> ELSE <<Head(text)>>)
         \o Utf8Encode(Tail(text))

\* bytes.decode('utf-8') succeeds
RECURSIVE Utf8Valid(_)
Utf8Valid(bytes) ==
    IF bytes = <<>> THEN TRUE
    ELSE IF Head(bytes) = "xC3"
         THEN Len(bytes) >= 2 /\ bytes[2] = "xA9"
              /\ Utf8Valid(SubSeq(bytes, 3, Len(bytes)))
         ELSE Head(bytes) # "xA9" /\ Utf8Valid(Tail(bytes))

\* bytes.decode('utf-8') of valid bytes
RECURSIVE Utf8Decode(_)
Utf8Decode(bytes) ==
    IF bytes = <<>> THEN <<>>
    ELSE IF Head(bytes) = "xC3"
         THEN <<NonAscii>> \o Utf8Decode(SubSeq(bytes, 3, Len(bytes)))
         ELSE <<Head(bytes)>> \o Utf8Decode(Tail(bytes))

\* The text is exactly one complete JSON document: the literal null, or one
\* object, closed, with nothing after it.
IsDocument(text) ==
    \/ text = <<"null">>
    \/ /\ Len(text) >= 2
       /\ text[1] = "{"
       /\ text[Len(text)] = "}"
       /\ \A i \in 2..(Len(text) - 1) : text[i] \in Tokens

\* json.loads(bytes.decode('utf-8')): UnicodeDecodeError when the bytes are no
\* UTF-8, JSONDecodeError when the text is not one complete document (a proper
\* prefix of one, or one followed by extra data), and the value otherwise.
JsonLoads(bytes) ==
    IF ~Utf8Valid(bytes) THEN [ok |-> "UnicodeDecodeError", value |-> JNull]
    ELSE LET text == Utf8Decode(bytes) IN
         IF ~IsDocument(text) THEN [ok |-> "JSONDecodeError", value |-> JNull]
         ELSE IF text = <<"null">> THEN [ok |-> "value", value |-> JNull]
         ELSE [ok |-> "value",
               value |-> JObj(MapSeq(SubSeq(text, 2, Len(text) - 1), UnescapeTok))]

\* A peer's serialization of a command: UTF-8 JSON text.
PeerEncode(v) == Utf8Encode(RawText(v))

\* ------------------------------------------------------ MayaMCPServer state
VARIABLES
    running,     \* self.running
    listening,   \* self.socket is a bound, listening socket
    hpc,         \* per connection: "unused", "pending" (connected, not yet
                 \* accepted), "recv" (handler thread in its loop), "stopped"
    buffer,      \* per handler: the local buffer
    command,     \* per handler: the local command, the cell execute_wrapper reads
    deferred,    \* Maya's queue of deferred work: the wrappers, by connection
    scene,       \* names of the objects of the scene
    c2s,         \* bytes in flight to the server, per connection
    s2c,         \* bytes in flight to the peer, per connection
    peerOpen,    \* the peer's end of the connection is open
    sent,        \* history: the commands the peer sent, per connection
    pipelined,   \* history: the peer sent a command before the previous reply
    scheduled,   \* history: every decoded command, in executeDeferred order
    executed,    \* history: every command executed, in execution order
    out          \* history: the replies written, per connection

svars == <<running, listening, hpc, buffer, command, deferred, scene, c2s, s2c,
           peerOpen, sent, pipelined, scheduled, executed, out>>

\* ------------------------------------------ connection manager (the adapter)
VARIABLES
    mconn,       \* _maya_connection is not None
    sock,        \* the manager's sock: a connection, or 0 for None
    cpc,         \* the adapter thread: "idle", "recv" (send_command waits in
                 \* receive_full_response), "probed" (get_maya_connection has
                 \* its probe's outcome)
    ctx,         \* who called the send_command in progress: "send" (the
                 \* caller) or "probe" (get_maya_connection)
    chunks,      \* receive_full_response: the chunks received so far
    calls,       \* calls made on the manager so far
    last,        \* history: the outcome of the call that completed last
    prev,        \* history: the outcome of the call that completed before it
    hist         \* history: the server was stopped once; a caller's command failed

cvars == <<mconn, sock, cpc, ctx, chunks, calls, last, prev, hist>>

\* --------------------------------------------------- the adapter's MCP tools
VARIABLES
    tool,        \* the tool call in progress, or "none"
    tlast        \* history: the outcome of the tool call that completed last

avars == <<tool, tlast>>

\* ------------------------------------------------- MayaMCPServer life cycle
VARIABLES
    server_thread,  \* self.server_thread: an accept-loop thread, or 0 for None
    loops,          \* per accept-loop thread: "none", "test" (about to test
                    \* `while self.running`: just started, or after its sleep),
                    \* "accept" (in self.socket.accept()), "exited", "orphan"
                    \* (alive, of an instance nothing refers to any more)
    gserver,        \* the global maya_mcp_server is not None
    retired,        \* history: the fields of the instances the global dropped
    lcalls,         \* start / stop calls made so far
    slast           \* history: the start / stop call that completed last

lvars == <<server_thread, loops, gserver, retired, lcalls, slast>>

vars == <<svars, cvars, avars, lvars>>

InitServer ==
    /\ running = FALSE
    /\ listening = FALSE
    /\ hpc = [c \in Conns |-> "unused"]
    /\ buffer = [c \in Conns |-> <<>>]
    /\ command = [c \in Conns |-> Unbound]
    /\ deferred = <<>>
    /\ scene = {}
    /\ c2s = [c \in Conns |-> <<>>]
    /\ s2c = [c \in Conns |-> <<>>]
    /\ peerOpen = [c \in Conns |-> FALSE]
    /\ sent = [c \in Conns |-> <<>>]
    /\ pipelined = [c \in Conns |-> FALSE]
    /\ scheduled = <<>>
    /\ executed = <<>>
    /\ out = [c \in Conns |-> <<>>]

\* ------------------------------------------------------------ the handlers
Mutating == {"create_object", "modify_object", "delete_object"}

\* MayaMCPServer.create_object: the name comes from params["type"]; a failing
\* cmds call raises out of the handler.
create_object(params, scn, fail) ==
    IF fail THEN [raised |-> TRUE, result |-> "None", scene |-> scn]
    ELSE [raised |-> FALSE, result |-> params, scene |-> scn \cup {params}]

\* MayaMCPServer.modify_object: cmds.ls of a missing name is the empty list,
\* and obj[0] then raises IndexError (visibility defaults to True).
modify_object(params, scn, fail) ==
    IF params \notin scn \/ fail
    THEN [raised |-> TRUE, result |-> "None", scene |-> scn]
    ELSE [raised |-> FALSE, result |-> params, scene |-> scn]

\* MayaMCPServer.get_scene_info: its own try/except turns a failing query into
\* the returned mapping {"error": ...}; it never raises.
get_scene_info(params, scn, fail) ==
    IF fail THEN [raised |-> FALSE, result |-> "error_dict", scene |-> scn]
    ELSE [raised |-> FALSE, result |-> "scene_info", scene |-> scn]

\* The dispatch table of _execute_command_internal.
Handlers == {"get_scene_info", "create_object"}

\* MayaMCPServer._execute_command_internal: with no handler for the name the
\* function falls off its end and returns None.
ExecuteCommandInternal(cmd, scn, fail) ==
    LET cmd_type == Get(cmd, 1)
        params == Get(cmd, 2)
    IN IF cmd_type \notin Handlers
       THEN [raised |-> FALSE, value |-> JNull, scene |-> scn]
       ELSE LET r == IF cmd_type = "get_scene_info"
                     THEN get_scene_info(params, scn, fail)
                     ELSE create_object(params, scn, fail)
            IN [raised |-> r.raised,
                value |-> JObj(<<"success", r.result>>),
                scene |-> r.scene]

\* MayaMCPServer.execute_command, run by the wrapper on Maya's main thread
\* (where executeInMainThreadWithResult calls the function at once): whatever
\* raises becomes {"status": "error", "message": str(e)}.  command.get of a
\* value that is no mapping raises AttributeError.
ExecuteCommand(cmd, scn, fail) ==
    IF cmd.type # "object"
    THEN [value |-> JObj(<<"error", "message">>), scene |-> scn]
    ELSE LET r == ExecuteCommandInternal(cmd, scn, fail)
         IN IF r.raised
            THEN [value |-> JObj(<<"error", "message">>), scene |-> scn]
            ELSE [value |-> r.value, scene |-> r.scene]

\* The handler of a command failed while it ran (a cmds call failed, or the
\* named object is not in the scene).
HandlerFailed(cmd, scn, fail) ==
    /\ cmd.type = "object"
    /\ Get(cmd, 1) \in Handlers
    /\ fail

\* ----------------------------------------------------------- MayaMCPServer
\* MayaMCPServer.start: a no-op when running; a failed bind ends in stop().
Start ==
    /\ ~running
    /\ \E bindOk \in BOOLEAN :
         /\ running' = bindOk
         /\ listening' = bindOk
    /\ UNCHANGED <<hpc, buffer, command, deferred, scene, c2s, s2c, peerOpen,
                   sent, pipelined, scheduled, executed, out>>

\* _server_loop: accept one pending connection and start its handler thread.
Accept(c) ==
    /\ running
    /\ listening
    /\ hpc[c] = "pending"
    /\ hpc' = [hpc EXCEPT ![c] = "recv"]
    /\ buffer' = [buffer EXCEPT ![c] = <<>>]
    /\ UNCHANGED <<running, listening, command, deferred, scene, c2s, s2c,
                   peerOpen, sent, pipelined, scheduled, executed, out>>

\* The loop test of _handle_client, read after an iteration.
LoopTest == IF running THEN "recv" ELSE "stopped"

\* One iteration of _handle_client that reads data: recv returns any non-empty
\* prefix of the bytes in flight; the buffer is decoded and parsed; a parsed
\* command is bound to the local `command` and a wrapper is deferred to the
\* main thread (the handler does not wait for it).  UnicodeDecodeError is not
\* JSONDecodeError: it reaches the outer except, which ends the loop, and the
\* finally clause closes the connection.
HandlerRecv(c) ==
    /\ hpc[c] = "recv"
    /\ c2s[c] # <<>>
    /\ \E k \in 1..Len(c2s[c]) :
         LET data == SubSeq(c2s[c], 1, k)
             buf == buffer[c] \o data
             r == JsonLoads(buf)
         IN /\ c2s' = [c2s EXCEPT ![c] = SubSeq(c2s[c], k + 1, Len(c2s[c]))]
            /\ IF r.ok = "value"
               THEN /\ command' = [command EXCEPT ![c] = r.value]
                    /\ buffer' = [buffer EXCEPT ![c] = <<>>]
                    /\ deferred' = Append(deferred, c)
                    /\ scheduled' = Append(scheduled, [conn |-> c, cmd |-> r.value])
                    /\ hpc' = [hpc EXCEPT ![c] = LoopTest]
               ELSE /\ buffer' = [buffer EXCEPT ![c] = buf]
                    /\ hpc' = [hpc EXCEPT ![c] =
                                 IF r.ok = "JSONDecodeError" THEN LoopTest
                                 ELSE "stopped"]
                    /\ UNCHANGED <<command, deferred, scheduled>>
    /\ UNCHANGED <<running, listening, scene, s2c, peerOpen, sent, pipelined,
                   executed, out>>

\* Mutant: a handler that ends takes every handler thread with it.
HandlerEnds_All(h, c) == [d \in Conns |-> IF h[d] = "recv" THEN "stopped" ELSE h[d]]

\* The handler of connection c leaves its loop: the finally clause closes
\* this client socket and the thread ends.
HandlerEnds(h, c) == [h EXCEPT ![c] = "stopped"]

\* The iteration of _handle_client whose recv returns no data: the peer has
\* closed; the loop ends and the connection is closed.
HandlerPeerClosed(c) ==
    /\ hpc[c] = "recv"
    /\ c2s[c] = <<>>
    /\ ~peerOpen[c]
    /\ hpc' = HandlerEnds(hpc, c)
    /\ UNCHANGED <<running, listening, buffer, command, deferred, scene, c2s,
                   s2c, peerOpen, sent, pipelined, scheduled, executed, out>>

\* The iteration of _handle_client whose recv raises (the peer has gone and
\* the connection was reset, bytes in flight are lost): the except clause
\* ends the loop and the connection is closed.
HandlerRecvFails(c) ==
    /\ hpc[c] = "recv"
    /\ ~peerOpen[c]
    /\ hpc' = HandlerEnds(hpc, c)
    /\ c2s' = [c2s EXCEPT ![c] = <<>>]
    /\ UNCHANGED <<running, listening, buffer, command, deferred, scene, s2c,
                   peerOpen, sent, pipelined, scheduled, executed, out>>

\* The command a deferred wrapper executes: execute_wrapper is a closure over
\* the handler's local `command`, read when the wrapper runs.
WrapperCommand(c) == command[c]

\* Maya's main thread runs the oldest deferred execute_wrapper: it executes
\* the command, serializes the response and writes it to the connection; a
\* failing write (the handler has closed the socket) is swallowed.
ExecuteDeferred ==
    /\ deferred # <<>>
    /\ LET c == Head(deferred)
           cmd == WrapperCommand(c)
       IN \E fail \in BOOLEAN :
            LET r == ExecuteCommand(cmd, scene, fail)
                reply == [cmd |-> cmd, resp |-> r.value,
                          failed |-> HandlerFailed(cmd, scene, fail),
                          missing |-> Get(cmd, 2) \notin scene]
            IN /\ deferred' = Tail(deferred)
               /\ scene' = r.scene
               /\ executed' = Append(executed, [conn |-> c, cmd |-> cmd])
               /\ IF hpc[c] = "recv" /\ peerOpen[c]
                  THEN /\ s2c' = [s2c EXCEPT ![c] = @ \o Utf8Encode(JsonDumps(r.value))]
                       /\ out' = [out EXCEPT ![c] = Append(@, reply)]
                  ELSE UNCHANGED <<s2c, out>>
    /\ UNCHANGED <<running, listening, hpc, buffer, command, c2s, peerOpen,
                   sent, pipelined, scheduled>>

\* ---------------------------------------------------------------- the peers
RECURSIVE SumLen(_, _)
SumLen(f, n) == IF n = 0 THEN 0 ELSE Len(f[n]) + SumLen(f, n - 1)

\* A peer opens a TCP connection; it is established once the server listens.
PeerConnect(c) ==
    /\ listening
    /\ hpc[c] = "unused"
    /\ \A d \in Conns : d < c => hpc[d] # "unused"
    /\ hpc' = [hpc EXCEPT ![c] = "pending"]
    /\ peerOpen' = [peerOpen EXCEPT ![c] = TRUE]
    /\ UNCHANGED <<running, listening, buffer, command, deferred, scene, c2s,
                   s2c, sent, pipelined, scheduled, executed, out>>

\* A peer writes one serialized command.
PeerSend(c, cmd) ==
    /\ peerOpen[c]
    /\ hpc[c] \in {"pending", "recv"}
    /\ SumLen(sent, NumConns) < MaxCmds
    /\ c2s' = [c2s EXCEPT ![c] = @ \o PeerEncode(cmd)]
    /\ sent' = [sent EXCEPT ![c] = Append(@, cmd)]
    /\ pipelined' = [pipelined EXCEPT ![c] = @ \/ Len(out[c]) < Len(sent[c])]
    /\ UNCHANGED <<running, listening, hpc, buffer, command, deferred, scene,
                   s2c, peerOpen, scheduled, executed, out>>

\* A peer closes its end.
PeerClose(c) ==
    /\ peerOpen[c]
    /\ peerOpen' = [peerOpen EXCEPT ![c] = FALSE]
    /\ UNCHANGED <<running, listening, hpc, buffer, command, deferred, scene,
                   c2s, s2c, sent, pipelined, scheduled, executed, out>>

\* MayaMCPServer.stop: clears the running flag and closes the listening
\* socket; connections still in its backlog are reset.  A handler thread reads
\* the flag only at its loop test, after its recv has returned.
Stop ==
    /\ running
    /\ running' = FALSE
    /\ listening' = FALSE
    /\ hpc' = [c \in Conns |-> IF hpc[c] = "pending" THEN "stopped" ELSE hpc[c]]
    /\ hist' = [hist EXCEPT !.stopped = TRUE]
    /\ UNCHANGED <<buffer, command, deferred, scene, c2s, s2c, peerOpen, sent,
                   pipelined, scheduled, executed, out>>
    /\ UNCHANGED <<mconn, sock, cpc, ctx, chunks, calls, last, prev>>

\* --------------------------------------------------------- MayaConnection
NoCall == [id |-> 0, op |-> "none", ctx |-> "none", outcome |-> "none",
           value |-> "None", stage |-> "none", opened |-> FALSE, live |-> FALSE]

InitClient ==
    /\ mconn = FALSE
    /\ sock = 0
    /\ cpc = "idle"
    /\ ctx = "send"
    /\ chunks = <<>>
    /\ calls = 0
    /\ last = NoCall
    /\ prev = NoCall
    /\ hist = [stopped |-> FALSE, failed |-> FALSE]
    /\ tool = "none"
    /\ tlast = [tool |-> "none", outcome |-> "none", value |-> "None",
                failed |-> FALSE]

InitLifecycle ==
    /\ server_thread = 0
    /\ loops = [l \in Loops |-> "none"]
    /\ gserver = FALSE
    /\ retired = {}
    /\ lcalls = 0
    /\ slast = [id |-> 0, op |-> "none", before |-> "none", was |-> FALSE,
                had |-> FALSE]

\* The commands the adapter's tools send.
ClientCmds == {Cmd("about", "None"), Cmd("get_scene_info", "None"),
               Cmd("create_object", "pCube1"), Cmd("modify_object", "pCube1")}

\* The failures of send_command that come from the transport.
TransportStages == {"write", "closed", "timeout", "receive"}

\* The connection a TCP connect would get: the lowest one not yet used.
FreeConn == IF \E c \in Conns : hpc[c] = "unused"
            THEN CHOOSE c \in Conns :
                     hpc[c] = "unused" /\ \A d \in Conns : d < c => hpc[d] # "unused"
            ELSE 0

\* The model can still open a connection, or the server refuses it anyway.
CanDial == ~listening \/ FreeConn # 0

\* Mutant: connect() without the test for a sock already held.
ConnectOutcome_NoGuard(s, reachable, c) ==
    IF reachable THEN [ret |-> "True", sock |-> c, opened |-> TRUE]
    ELSE [ret |-> "False", sock |-> 0, opened |-> FALSE]

\* MayaConnection.connect: with a sock held it returns True at once; otherwise
\* it opens a socket and connects, and any exception (a refused connection)
\* sets sock to None and returns False.
ConnectOutcome(s, reachable, c) ==
    IF s # 0 THEN [ret |-> "True", sock |-> s, opened |-> FALSE]
    ELSE IF reachable THEN [ret |-> "True", sock |-> c, opened |-> TRUE]
    ELSE [ret |-> "False", sock |-> 0, opened |-> FALSE]

\* The effect of a connect outcome on the network: a new connection is
\* established in the server's backlog.
Dial(o) ==
    IF o.opened
    THEN /\ hpc' = [hpc EXCEPT ![o.sock] = "pending"]
         /\ peerOpen' = [peerOpen EXCEPT ![o.sock] = TRUE]
    ELSE UNCHANGED <<hpc, peerOpen>>

\* Mutant: the except clause of send_command does not clear self.sock.
SockAfterFailure_Kept(s) == s

\* What send_command leaves in self.sock when it fails (the except clause).
SockAfterFailure(s) == 0

\* The number of the call in progress, or of the call an idle caller makes.
CallId == IF cpc = "idle" THEN calls + 1 ELSE calls

\* A call completes: its outcome becomes the last one.
Complete(rec) ==
    /\ prev' = last
    /\ last' = rec

\* A caller calls connect() on the manager.
CallConnect ==
    /\ cpc = "idle"
    /\ mconn
    /\ calls < MaxCalls
    /\ CanDial
    /\ LET o == ConnectOutcome(sock, listening, FreeConn)
       IN /\ sock' = o.sock
          /\ Dial(o)
          /\ Complete([id |-> CallId, op |-> "connect", ctx |-> "send", outcome |-> "return",
                       value |-> o.ret, stage |-> "none", opened |-> o.opened,
                       live |-> sock # 0])
    /\ calls' = calls + 1
    /\ UNCHANGED <<running, listening, buffer, command, deferred, scene, c2s,
                   s2c, sent, pipelined, scheduled, executed, out>>
    /\ UNCHANGED <<mconn, cpc, ctx, chunks, hist>>

\* A caller calls disconnect() on the manager: a held socket is closed.
CallDisconnect ==
    /\ cpc = "idle"
    /\ mconn
    /\ sock # 0
    /\ calls < MaxCalls
    /\ peerOpen' = [peerOpen EXCEPT ![sock] = FALSE]
    /\ sock' = 0
    /\ Complete([id |-> CallId, op |-> "disconnect", ctx |-> "send", outcome |-> "return",
                 value |-> "None", stage |-> "none", opened |-> FALSE,
                 live |-> TRUE])
    /\ calls' = calls + 1
    /\ UNCHANGED <<running, listening, hpc, buffer, command, deferred, scene,
                   c2s, s2c, sent, pipelined, scheduled, executed, out>>
    /\ UNCHANGED <<mconn, cpc, ctx, chunks, hist>>

\* The outcome record of a send_command call.
SendOutcome(who, how, val, where) ==
    [id |-> CallId, op |-> "send_command", ctx |-> who, outcome |-> how, value |-> val,
     stage |-> where, opened |-> FALSE, live |-> sock # 0]

\* send_command ends: a failure inside its try block sets sock to None and is
\* raised again; a normal return leaves sock alone.  A probe hands its outcome
\* to get_maya_connection.
SendEnds(who, how, val, where) ==
    /\ Complete(SendOutcome(who, how, val, where))
    /\ sock' = IF how = "raise" /\ where # "not_connected"
               THEN SockAfterFailure(sock) ELSE sock
    /\ cpc' = IF who = "probe" THEN "probed" ELSE "idle"
    /\ ctx' = who
    /\ chunks' = <<>>
    /\ hist' = [hist EXCEPT !.failed = @ \/ (how = "raise" /\ who = "send")]

\* Mutant: send_command that returns nothing when no connection is held.
NotConnected_Quiet == [how |-> "return", val |-> "None", where |-> "none"]

\* What send_command does when self.sock is None.
NotConnected ==
    [how |-> "raise", val |-> "Not connected to Maya", where |-> "not_connected"]

\* The first part of send_command: the not-connected check, then sendall of
\* the serialized command.  A write to a connection the server has closed may
\* fail or may be accepted by the local stack.
SendBegins(who, cmd) ==
    IF sock = 0
    THEN /\ SendEnds(who, NotConnected.how, NotConnected.val, NotConnected.where)
         /\ UNCHANGED c2s
    ELSE \E writeOk \in BOOLEAN :
           /\ (~writeOk) => hpc[sock] = "stopped"
           /\ IF writeOk
              THEN /\ c2s' = [c2s EXCEPT ![sock] =
                                 IF hpc[sock] = "stopped" THEN @
                                 ELSE @ \o Utf8Encode(JsonDumps(cmd))]
                   /\ cpc' = "recv"
                   /\ ctx' = who
                   /\ chunks' = <<>>
                   /\ UNCHANGED <<sock, last, prev, hist>>
              ELSE /\ SendEnds(who, "raise", "message", "write")
                   /\ UNCHANGED c2s

\* A caller calls send_command(cmd) on the manager.
CallSendCommand(cmd) ==
    /\ cpc = "idle"
    /\ mconn
    /\ calls < MaxCalls
    /\ SendBegins("send", cmd)
    /\ calls' = calls + 1
    /\ UNCHANGED <<running, listening, hpc, buffer, command, deferred, scene,
                   s2c, peerOpen, sent, pipelined, scheduled, executed, out>>
    /\ UNCHANGED mconn

\* What send_command makes of the parsed response: response.get on a value
\* that is no mapping raises AttributeError; status "error" raises the carried
\* message; otherwise the result is returned.
ResponseOutcome(response) ==
    IF response.type # "object"
    THEN [how |-> "raise", val |-> "AttributeError", where |-> "parse"]
    ELSE IF Get(response, 1) = "error"
    THEN [how |-> "raise", val |-> Get(response, 2), where |-> "status"]
    ELSE [how |-> "return", val |-> Get(response, 2), where |-> "none"]

\* Mutant: receive_full_response that returns whatever the first read brings.
ReceiveRead_Any(chs, chunk) ==
    [act |-> "return", data |-> chs \o chunk, msg |-> "None"]

\* receive_full_response after a read that brought data: the chunks so far
\* are joined, decoded and parsed; they are returned when they parse, the
\* loop goes on after JSONDecodeError, and any other exception (the bytes are
\* no UTF-8) is raised again.
ReceiveRead(chs, chunk) ==
    LET data == chs \o chunk
        r    == JsonLoads(data)
    IN IF r.ok = "value" THEN [act |-> "return", data |-> data, msg |-> "None"]
       ELSE IF r.ok = "JSONDecodeError"
       THEN [act |-> "continue", data |-> data, msg |-> "None"]
       ELSE [act |-> "raise", data |-> data, msg |-> r.ok]

\* receive_full_response after its loop (a break): chunks that parse are
\* returned; chunks that do not, and no chunks, raise.
AfterLoop(chs) ==
    IF chs # <<>>
    THEN IF JsonLoads(chs).ok = "value"
         THEN [act |-> "return", data |-> chs, msg |-> "None"]
         ELSE [act |-> "raise", data |-> chs,
               msg |-> "Incomplete JSON response received"]
    ELSE [act |-> "raise", data |-> chs, msg |-> "No data received"]

\* receive_full_response after a read that brought nothing: with no chunk it
\* raises, with chunks it breaks out of the loop.
EmptyRead(chs) ==
    IF chs = <<>>
    THEN [act |-> "raise", data |-> chs,
          msg |-> "Connection closed before receiving any data"]
    ELSE AfterLoop(chs)

\* send_command has what receive_full_response gave: the data returned is
\* parsed again and the response looked at; a failure is raised on.
Received(o, where) ==
    IF o.act = "raise" THEN SendEnds(ctx, "raise", o.msg, where)
    ELSE LET r == JsonLoads(o.data)
         IN IF r.ok # "value" THEN SendEnds(ctx, "raise", r.ok, "parse")
            ELSE SendEnds(ctx, ResponseOutcome(r.value).how,
                          ResponseOutcome(r.value).val,
                          ResponseOutcome(r.value).where)

\* receive_full_response reads a chunk: any non-empty prefix of the bytes in
\* flight.
RecvChunk ==
    /\ cpc = "recv"
    /\ s2c[sock] # <<>>
    /\ \E k \in 1..Len(s2c[sock]) :
         LET o == ReceiveRead(chunks, SubSeq(s2c[sock], 1, k))
         IN /\ s2c' = [s2c EXCEPT ![sock] = SubSeq(@, k + 1, Len(@))]
            /\ IF o.act = "continue"
               THEN /\ chunks' = o.data
                    /\ UNCHANGED <<sock, cpc, ctx, last, prev, hist>>
               ELSE Received(o, "receive")
    /\ UNCHANGED <<running, listening, hpc, buffer, command, deferred, scene,
                   c2s, peerOpen, sent, pipelined, scheduled, executed, out>>
    /\ UNCHANGED <<mconn, calls>>

\* receive_full_response reads no data because the server has closed the
\* connection.
RecvEmpty ==
    /\ cpc = "recv"
    /\ s2c[sock] = <<>>
    /\ hpc[sock] = "stopped"
    /\ Received(EmptyRead(chunks), "closed")
    /\ UNCHANGED <<running, listening, hpc, buffer, command, deferred, scene,
                   c2s, s2c, peerOpen, sent, pipelined, scheduled, executed, out>>
    /\ UNCHANGED <<mconn, calls>>

\* The recv of receive_full_response times out: the loop ends.
RecvTimeout ==
    /\ cpc = "recv"
    /\ s2c[sock] = <<>>
    /\ Received(AfterLoop(chunks), "timeout")
    /\ UNCHANGED <<running, listening, hpc, buffer, command, deferred, scene,
                   c2s, s2c, peerOpen, sent, pipelined, scheduled, executed, out>>
    /\ UNCHANGED <<mconn, calls>>

\* The second part of get_maya_connection: with no manager (none yet, or the
\* probe failed and the manager was torn down, its disconnect() closing the
\* socket `held`, if any) a new one is made and connects; a refused connection
\* clears the global and raises.
FreshConnect(held) ==
    LET o == ConnectOutcome(0, listening, FreeConn)
    IN /\ mconn' = (o.ret = "True")
       /\ sock' = o.sock
       /\ hpc' = IF o.opened THEN [hpc EXCEPT ![o.sock] = "pending"] ELSE hpc
       /\ peerOpen' = [c \in Conns |-> IF o.opened /\ c = o.sock THEN TRUE
                                        ELSE IF c = held THEN FALSE
                                        ELSE peerOpen[c]]
       /\ Complete([id |-> CallId, op |-> "get_maya_connection", ctx |-> "send",
                    outcome |-> IF o.ret = "True" THEN "return" ELSE "raise",
                    value |-> IF o.ret = "True" THEN "connection"
                              ELSE "Failed to connect to Maya",
                    stage |-> "none", opened |-> o.opened,
                    live |-> cpc = "probed" /\ last.live])

\* A caller calls get_maya_connection(): with a manager it first probes it
\* with send_command("about").
CallGetMayaConnection ==
    /\ cpc = "idle"
    /\ calls < MaxCalls
    /\ calls' = calls + 1
    /\ IF mconn
       THEN /\ SendBegins("probe", Cmd("about", "None"))
            /\ UNCHANGED <<mconn, hpc, peerOpen>>
       ELSE /\ CanDial
            /\ FreshConnect(0)
            /\ UNCHANGED <<cpc, ctx, chunks, hist, c2s>>
    /\ UNCHANGED <<running, listening, buffer, command, deferred, scene, s2c,
                   sent, pipelined, scheduled, executed, out>>

\* What get_maya_connection makes of the result its probe returned:
\* result.get("enabled", False).  Every result is a mapping but null, which
\* has no get: the AttributeError is caught like a failed probe.
ProbeAnswer(result) ==
    IF result = "None" THEN [how |-> "raise", val |-> "AttributeError"]
    ELSE [how |-> "return", val |-> IF result = "enabled" THEN "True" ELSE "False"]

\* get_maya_connection has its probe's outcome: a result is answered with
\* result.get("enabled", False), which is what the call returns; a failure
\* calls disconnect(), clears the global and goes on to connect afresh.
ProbeEnds ==
    /\ cpc = "probed"
    /\ cpc' = "idle"
    /\ IF last.outcome = "return" /\ ProbeAnswer(last.value).how = "return"
       THEN /\ Complete([id |-> CallId, op |-> "get_maya_connection", ctx |-> "send",
                         outcome |-> "return", value |-> ProbeAnswer(last.value).val,
                         stage |-> "none", opened |-> FALSE, live |-> last.live])
            /\ UNCHANGED <<mconn, sock, hpc, peerOpen>>
       ELSE /\ CanDial
            /\ FreshConnect(sock)
    /\ UNCHANGED <<running, listening, buffer, command, deferred, scene, c2s,
                   s2c, sent, pipelined, scheduled, executed, out>>
    /\ UNCHANGED <<ctx, chunks, calls, hist>>

\* A socket object the manager no longer holds is collected, which closes it.
SocketCollected(c) ==
    /\ peerOpen[c]
    /\ sock # c
    /\ peerOpen' = [peerOpen EXCEPT ![c] = FALSE]
    /\ UNCHANGED <<running, listening, hpc, buffer, command, deferred, scene,
                   c2s, s2c, sent, pipelined, scheduled, executed, out>>
    /\ UNCHANGED cvars

\* --------------------------------------------- life cycle of MayaMCPServer
\* The thread slot a new accept loop gets: the lowest one not alive.
FreeLoop == IF \E l \in Loops : loops[l] \in {"none", "exited"}
            THEN CHOOSE l \in Loops :
                     /\ loops[l] \in {"none", "exited"}
                     /\ \A k \in Loops : k < l => loops[k] \notin {"none", "exited"}
            ELSE 0

\* Mutant: stop() that does not close the listening socket.
StopOutcome_KeepSocket(r, sk, th) ==
    [running |-> FALSE, socket |-> sk, thread |-> 0, spawned |-> FALSE,
     closed |-> FALSE, joined |-> th]

\* Mutant: stop() that leaves server_thread as it is.
StopOutcome_KeepThread(r, sk, th) ==
    [running |-> FALSE, socket |-> FALSE, thread |-> th, spawned |-> FALSE,
     closed |-> sk, joined |-> th]

\* MayaMCPServer.stop, on the fields running, socket, server_thread: the flag
\* is cleared; a socket is closed (an exception of close is caught) and set
\* to None; a thread is joined for at most a second (an exception is caught)
\* and server_thread set to None.
StopOutcome(r, sk, th) ==
    [running |-> FALSE, socket |-> FALSE, thread |-> 0, spawned |-> FALSE,
     closed |-> sk, joined |-> th]

\* Mutant: start() without the test of self.running.
StartOutcome_NoGuard(r, sk, th, bindOk, new) ==
    IF bindOk
    THEN [running |-> TRUE, socket |-> TRUE, thread |-> new, spawned |-> TRUE,
          closed |-> FALSE, joined |-> 0]
    ELSE StopOutcome(TRUE, TRUE, th)

\* MayaMCPServer.start: with running set it returns at once; otherwise it sets
\* running, binds a new socket and starts a new accept-loop thread, and any
\* exception on the way (the bind fails) ends in stop().
StartOutcome(r, sk, th, bindOk, new) ==
    IF r
    THEN [running |-> r, socket |-> sk, thread |-> th, spawned |-> FALSE,
          closed |-> FALSE, joined |-> 0]
    ELSE IF bindOk
    THEN [running |-> TRUE, socket |-> TRUE, thread |-> new, spawned |-> TRUE,
          closed |-> FALSE, joined |-> 0]
    ELSE StopOutcome(TRUE, TRUE, th)

\* The accept-loop threads after the call: a thread started is about to test
\* the flag; a thread joined has, or has not, exited within the second.
LoopsAfter(ls, o, exits) ==
    [l \in Loops |->
        IF o.spawned /\ l = o.thread THEN "test"
        ELSE IF l = o.joined /\ exits /\ ls[l] \in {"test", "accept"} THEN "exited"
        ELSE ls[l]]

\* The fields and the threads of the server take the outcome of a call; the
\* connections in the backlog of a socket that is closed are reset.
Becomes(ls, o, exits) ==
    /\ o.spawned => o.thread # 0
    /\ running' = o.running
    /\ listening' = o.socket
    /\ server_thread' = o.thread
    /\ loops' = LoopsAfter(ls, o, exits)
    /\ hpc' = [c \in Conns |-> IF o.closed /\ hpc[c] = "pending" THEN "stopped"
                                ELSE hpc[c]]
    /\ hist' = [hist EXCEPT !.stopped = @ \/ o.closed]
    /\ UNCHANGED <<buffer, command, deferred, scene, c2s, s2c, peerOpen, sent,
                   pipelined, scheduled, executed, out>>
    /\ UNCHANGED <<mconn, sock, cpc, ctx, chunks, calls, last, prev>>
    /\ UNCHANGED avars

\* A start / stop call completes.
Called(name) ==
    /\ lcalls < MaxOps
    /\ lcalls' = lcalls + 1
    /\ slast' = [id |-> lcalls + 1, op |-> name, before |-> slast.op,
                 was |-> running, had |-> gserver]

\* start() is called on the instance.
CallStart ==
    /\ Called("start")
    /\ \E bindOk, exits \in BOOLEAN :
         Becomes(loops, StartOutcome(running, listening, server_thread, bindOk,
                                     FreeLoop), exits)
    /\ UNCHANGED <<gserver, retired>>

\* stop() is called on the instance.
CallStop ==
    /\ Called("stop")
    /\ \E exits \in BOOLEAN :
         Becomes(loops, StopOutcome(running, listening, server_thread), exits)
    /\ UNCHANGED <<gserver, retired>>

\* An accept loop tests `while self.running`.
LoopTests(l) ==
    /\ loops[l] = "test"
    /\ loops' = [loops EXCEPT ![l] = IF running THEN "accept" ELSE "exited"]
    /\ UNCHANGED <<svars, cvars, avars>>
    /\ UNCHANGED <<server_thread, gserver, retired, lcalls, slast>>

\* self.socket.accept() returns a connection: the loop starts its handler
\* thread, which tests the flag before its first recv, and goes round.
LoopAccepts(l, c) ==
    /\ loops[l] = "accept"
    /\ listening
    /\ hpc[c] = "pending"
    /\ hpc' = [hpc EXCEPT ![c] = LoopTest]
    /\ buffer' = [buffer EXCEPT ![c] = <<>>]
    /\ loops' = [loops EXCEPT ![l] = "test"]
    /\ UNCHANGED <<running, listening, command, deferred, scene, c2s, s2c,
                   peerOpen, sent, pipelined, scheduled, executed, out>>
    /\ UNCHANGED <<cvars, avars>>
    /\ UNCHANGED <<server_thread, gserver, retired, lcalls, slast>>

\* self.socket.accept() raises (the socket is closed, or self.socket is
\* None): the loop sleeps half a second and tests the flag again.
LoopAcceptFails(l) ==
    /\ loops[l] = "accept"
    /\ ~listening
    /\ loops' = [loops EXCEPT ![l] = "test"]
    /\ UNCHANGED <<svars, cvars, avars>>
    /\ UNCHANGED <<server_thread, gserver, retired, lcalls, slast>>

\* The accept loop of a dropped instance, whose running flag stays False,
\* leaves its loop.
OrphanExits(l) ==
    /\ loops[l] = "orphan"
    /\ loops' = [loops EXCEPT ![l] = "exited"]
    /\ UNCHANGED <<svars, cvars, avars>>
    /\ UNCHANGED <<server_thread, gserver, retired, lcalls, slast>>

\* The threads of an instance the global drops: those alive are orphans.
Orphaned(ls) ==
    [l \in Loops |-> IF ls[l] \in {"test", "accept"} THEN "orphan" ELSE ls[l]]

\* maya_mcp_stop_server: with an instance, stop() it and clear the global;
\* with none, nothing.
StopServer ==
    /\ Called("stop_server")
    /\ IF gserver
       THEN \E exits \in BOOLEAN :
              LET o == StopOutcome(running, listening, server_thread)
              IN /\ Becomes(Orphaned(LoopsAfter(loops, o, exits)),
                            [o EXCEPT !.joined = 0], FALSE)
                 /\ retired' = retired \cup
                        {[running |-> o.running, socket |-> o.socket,
                          thread |-> o.thread]}
                 /\ gserver' = FALSE
       ELSE /\ UNCHANGED <<svars, cvars, avars>>
            /\ UNCHANGED <<server_thread, loops, gserver, retired>>

\* maya_mcp_start_server: an existing instance is stopped and dropped by
\* maya_mcp_stop_server; a new MayaMCPServer is made the global and started.
StartServer ==
    /\ Called("start_server")
    /\ \E bindOk, exits \in BOOLEAN :
         LET old   == StopOutcome(running, listening, server_thread)
             ls    == IF gserver THEN Orphaned(LoopsAfter(loops, old, exits))
                      ELSE loops
             free  == IF \E l \in Loops : ls[l] \in {"none", "exited"}
                      THEN CHOOSE l \in Loops :
                               /\ ls[l] \in {"none", "exited"}
                               /\ \A k \in Loops :
                                      k < l => ls[k] \notin {"none", "exited"}
                      ELSE 0
             o     == StartOutcome(FALSE, FALSE, 0, bindOk, free)
         IN /\ Becomes(ls, [o EXCEPT !.closed = gserver /\ old.closed], FALSE)
            /\ retired' = IF gserver
                          THEN retired \cup {[running |-> old.running,
                                               socket |-> old.socket,
                                               thread |-> old.thread]}
                          ELSE retired
            /\ gserver' = TRUE

\* ------------------------------------------------------------ the MCP tools
ToolNames == {"get_maya_version", "get_scene_info", "modify_object", "create_object"}

\* The command a tool sends.
ToolCmd(t) ==
    CASE t = "get_maya_version" -> Cmd("about", "None")
      [] t = "get_scene_info"   -> Cmd("get_scene_info", "None")
      [] t = "modify_object"    -> Cmd("modify_object", "pCube1")
      [] t = "create_object"    -> Cmd("create_object", "pCube1")

\* The tools whose body is inside try/except Exception.
Guarded == {"modify_object", "create_object"}

\* What a tool call ends with.  get_maya_version and get_scene_info return
\* what send_command returned and let an exception pass; modify_object and
\* create_object format result['name'] and turn every exception, that of a
\* result without a name too, into the returned text "Error ...: <message>".
ToolOutcome(t, raised, val) ==
    IF t \in Guarded
    THEN [outcome |-> "return",
          value |-> IF raised \/ val \notin ObjNames THEN "Error" ELSE val,
          failed |-> raised]
    ELSE [outcome |-> IF raised THEN "raise" ELSE "return", value |-> val,
          failed |-> raised]

\* A tool call ends.
ToolEnds(o) ==
    /\ tlast' = [tool |-> tool, outcome |-> o.outcome, value |-> o.value,
                 failed |-> o.failed]
    /\ tool' = "none"

\* The MCP framework calls a tool, which first calls get_maya_connection()
\* (the send_command that follows is the tool's second call on the manager).
CallTool(t) ==
    /\ tool = "none"
    /\ tool' = t
    /\ UNCHANGED tlast
    /\ CallGetMayaConnection

\* The tool has the outcome of get_maya_connection(): an exception ends the
\* tool; on the value returned it calls send_command, which a value that is
\* not the manager does not have (AttributeError).
ToolSends ==
    /\ tool # "none"
    /\ cpc = "idle"
    /\ last.op = "get_maya_connection"
    /\ IF last.outcome = "return" /\ last.value = "connection"
       THEN /\ SendBegins("send", ToolCmd(tool))
            /\ calls' = calls + 1
            /\ UNCHANGED <<tool, tlast>>
       ELSE /\ ToolEnds(ToolOutcome(tool, TRUE,
                                    IF last.outcome = "raise" THEN last.value
                                    ELSE "AttributeError"))
            /\ UNCHANGED <<sock, cpc, ctx, chunks, calls, last, prev, hist, c2s>>
    /\ UNCHANGED <<running, listening, hpc, buffer, command, deferred, scene,
                   s2c, peerOpen, sent, pipelined, scheduled, executed, out>>
    /\ UNCHANGED mconn

\* The tool has the outcome of its send_command.
ToolReturns ==
    /\ tool # "none"
    /\ cpc = "idle"
    /\ last.op = "send_command"
    /\ ToolEnds(ToolOutcome(tool, last.outcome = "raise", last.value))
    /\ UNCHANGED <<svars, cvars>>

\* ------------------------------------------------------- an arbitrary server
\* What the server end of a connection may write: complete replies (null, a
\* success with a result that has "enabled", that has "name", or that is null,
\* an error), a reply with a raw non-ASCII character, and a reply cut short.
RemoteWrites ==
    {Utf8Encode(JsonDumps(r)) :
        r \in {JNull, JObj(<<"success", "enabled">>), JObj(<<"success", "pCube1">>),
               JObj(<<"success", "None">>), JObj(<<"error", "message">>)}}
    \cup {PeerEncode(JObj(<<"success", NonAscii>>)), <<"{", "success">>}

\* The server end reads the command in flight and writes bytes back.
RemoteReply(c, bytes) ==
    /\ hpc[c] = "pending"
    /\ peerOpen[c]
    /\ c2s[c] # <<>>
    /\ c2s' = [c2s EXCEPT ![c] = <<>>]
    /\ s2c' = [s2c EXCEPT ![c] = @ \o bytes]
    /\ UNCHANGED <<running, listening, hpc, buffer, command, deferred, scene,
                   peerOpen, sent, pipelined, scheduled, executed, out>>

\* The server end closes the connection.
RemoteClose(c) ==
    /\ hpc[c] = "pending"
    /\ hpc' = [hpc EXCEPT ![c] = "stopped"]
    /\ UNCHANGED <<running, listening, buffer, command, deferred, scene, c2s,
                   s2c, peerOpen, sent, pipelined, scheduled, executed, out>>

Init == InitServer /\ InitClient /\ InitLifecycle

NextClient ==
    \/ Start /\ UNCHANGED <<cvars, avars, lvars>>
    \/ Stop /\ UNCHANGED <<avars, lvars>>
    \/ \E c \in Conns : Accept(c) /\ UNCHANGED <<cvars, avars, lvars>>
    \/ \E c \in Conns : HandlerRecv(c) /\ UNCHANGED <<cvars, avars, lvars>>
    \/ \E c \in Conns : HandlerPeerClosed(c) /\ UNCHANGED <<cvars, avars, lvars>>
    \/ ExecuteDeferred /\ UNCHANGED <<cvars, avars, lvars>>
    \/ CallConnect /\ UNCHANGED <<avars, lvars>>
    \/ CallDisconnect /\ UNCHANGED <<avars, lvars>>
    \/ \E cmd \in ClientCmds : CallSendCommand(cmd) /\ UNCHANGED <<avars, lvars>>
    \/ CallGetMayaConnection /\ UNCHANGED <<avars, lvars>>
    \/ RecvChunk /\ UNCHANGED <<avars, lvars>>
    \/ RecvEmpty /\ UNCHANGED <<avars, lvars>>
    \/ RecvTimeout /\ UNCHANGED <<avars, lvars>>
    \/ ProbeEnds /\ UNCHANGED <<avars, lvars>>
    \/ \E c \in Conns : SocketCollected(c) /\ UNCHANGED <<avars, lvars>>

\* The connection manager against the bridge server.
SpecClient == Init /\ [][NextClient]_vars

NextServer ==
    \/ Start /\ UNCHANGED <<cvars, avars, lvars>>
    \/ \E c \in Conns : Accept(c) /\ UNCHANGED <<cvars, avars, lvars>>
    \/ \E c \in Conns : HandlerRecv(c) /\ UNCHANGED <<cvars, avars, lvars>>
    \/ \E c \in Conns : HandlerPeerClosed(c) /\ UNCHANGED <<cvars, avars, lvars>>
    \/ ExecuteDeferred /\ UNCHANGED <<cvars, avars, lvars>>
    \/ \E c \in Conns : PeerConnect(c) /\ UNCHANGED <<cvars, avars, lvars>>
    \/ \E c \in Conns, cmd \in PeerCmds : PeerSend(c, cmd) /\ UNCHANGED <<cvars, avars, lvars>>
    \/ \E c \in Conns : PeerClose(c) /\ UNCHANGED <<cvars, avars, lvars>>

\* The bridge server with peers that write raw bytes.
SpecServer == Init /\ [][NextServer]_vars

\* A command of ASCII text only.
PlainCmds == {Cmd("create_object", "pCube1")}

NextConns ==
    \/ Start /\ UNCHANGED <<cvars, avars, lvars>>
    \/ \E c \in Conns : Accept(c) /\ UNCHANGED <<cvars, avars, lvars>>
    \/ \E c \in Conns : HandlerRecv(c) /\ UNCHANGED <<cvars, avars, lvars>>
    \/ \E c \in Conns : HandlerPeerClosed(c) /\ UNCHANGED <<cvars, avars, lvars>>
    \/ \E c \in Conns : HandlerRecvFails(c) /\ UNCHANGED <<cvars, avars, lvars>>
    \/ ExecuteDeferred /\ UNCHANGED <<cvars, avars, lvars>>
    \/ \E c \in Conns : PeerConnect(c) /\ UNCHANGED <<cvars, avars, lvars>>
    \/ \E c \in Conns, cmd \in PlainCmds : PeerSend(c, cmd) /\ UNCHANGED <<cvars, avars, lvars>>
    \/ \E c \in Conns : PeerClose(c) /\ UNCHANGED <<cvars, avars, lvars>>

\* The bridge server with peers that send ASCII commands and may vanish.
SpecConns == Init /\ [][NextConns]_vars

NextManager ==
    \/ Start /\ UNCHANGED <<cvars, avars, lvars>>
    \/ Stop /\ UNCHANGED <<avars, lvars>>
    \/ \E c \in Conns, bytes \in RemoteWrites :
           RemoteReply(c, bytes) /\ UNCHANGED <<cvars, avars, lvars>>
    \/ \E c \in Conns : RemoteClose(c) /\ UNCHANGED <<cvars, avars, lvars>>
    \/ CallConnect /\ UNCHANGED <<avars, lvars>>
    \/ CallDisconnect /\ UNCHANGED <<avars, lvars>>
    \/ \E cmd \in ClientCmds : CallSendCommand(cmd) /\ UNCHANGED <<avars, lvars>>
    \/ CallGetMayaConnection /\ UNCHANGED <<avars, lvars>>
    \/ RecvChunk /\ UNCHANGED <<avars, lvars>>
    \/ RecvEmpty /\ UNCHANGED <<avars, lvars>>
    \/ RecvTimeout /\ UNCHANGED <<avars, lvars>>
    \/ ProbeEnds /\ UNCHANGED <<avars, lvars>>
    \/ \E c \in Conns : SocketCollected(c) /\ UNCHANGED <<avars, lvars>>

\* The connection manager against a server that may answer anything.
SpecManager == Init /\ [][NextManager]_vars

NextTools ==
    \/ Start /\ UNCHANGED <<cvars, avars, lvars>>
    \/ Stop /\ UNCHANGED <<avars, lvars>>
    \/ \E c \in Conns, bytes \in RemoteWrites :
           RemoteReply(c, bytes) /\ UNCHANGED <<cvars, avars, lvars>>
    \/ \E c \in Conns : RemoteClose(c) /\ UNCHANGED <<cvars, avars, lvars>>
    \/ \E t \in ToolNames : CallTool(t) /\ UNCHANGED lvars
    \/ ToolSends /\ UNCHANGED lvars
    \/ ToolReturns /\ UNCHANGED lvars
    \/ RecvChunk /\ UNCHANGED <<avars, lvars>>
    \/ RecvEmpty /\ UNCHANGED <<avars, lvars>>
    \/ RecvTimeout /\ UNCHANGED <<avars, lvars>>
    \/ ProbeEnds /\ UNCHANGED <<avars, lvars>>
    \/ \E c \in Conns : SocketCollected(c) /\ UNCHANGED <<avars, lvars>>

\* The adapter process, whose tools are its only callers of the connection
\* manager, against a server that may answer anything.
SpecTools == Init /\ [][NextTools]_vars

NextLifecycle ==
    \/ CallStart
    \/ CallStop
    \/ \E l \in Loops : LoopTests(l)
    \/ \E l \in Loops, c \in Conns : LoopAccepts(l, c)
    \/ \E l \in Loops : LoopAcceptFails(l)
    \/ \E c \in Conns : PeerConnect(c) /\ UNCHANGED <<cvars, avars, lvars>>
    \/ \E c \in Conns : PeerClose(c) /\ UNCHANGED <<cvars, avars, lvars>>
    \/ \E c \in Conns : HandlerPeerClosed(c) /\ UNCHANGED <<cvars, avars, lvars>>

\* One server instance whose owner calls start() and stop(), and peers that
\* connect to it.
SpecLifecycle == Init /\ [][NextLifecycle]_vars

NextGlobal ==
    \/ StartServer
    \/ StopServer
    \/ \E l \in Loops : LoopTests(l)
    \/ \E l \in Loops : OrphanExits(l)

\* The global server, managed by maya_mcp_start_server / maya_mcp_stop_server.
SpecGlobal == Init /\ [][NextGlobal]_vars

\* ----------------------------------------------------- claims on the server
Range(s) == {s[i] : i \in 1..Len(s)}

Count(log, e) == Cardinality({i \in 1..Len(log) : log[i] = e})

IsPrefix(s, t) == Len(s) <= Len(t) /\ SubSeq(t, 1, Len(s)) = s

\* The commands decoded on connection c, in order.
ScheduledOn(c) == SelectSeq(scheduled, LAMBDA e : e.conn = c)

IsMutating(e) == Get(e.cmd, 1) \in Mutating

IsErrorResponse(resp) ==
    /\ resp.type = "object"
    /\ Get(resp, 1) = "error"
    /\ Get(resp, 2) \notin {"None", ""}

\* C1: on a connection whose peer sends each command only after the reply to
\* the previous one, while the server runs, the i-th response written is the
\* reply to the i-th command sent, there are never more responses than
\* commands, and the handler does not end, with the peer still there, before
\* every command sent has its response.
C1_OneReplyPerCommand ==
    \A c \in Conns :
        ~pipelined[c] =>
            /\ Len(out[c]) <= Len(sent[c])
            /\ \A i \in 1..Len(out[c]) : out[c][i].cmd = sent[c][i]
            /\ (running /\ peerOpen[c] /\ hpc[c] = "stopped")
                   => Len(out[c]) = Len(sent[c])

\* C2: every decoded command is executed exactly once, with its own name and
\* params: no command is executed more often than it was decoded, and once no
\* deferred work is left every decoded command has been executed.
C2_ExecutedExactlyOnce ==
    \A e \in Range(scheduled) \cup Range(executed) :
        /\ Count(executed, e) <= Count(scheduled, e)
        /\ deferred = <<>> => Count(executed, e) = Count(scheduled, e)

\* C3: the mutating commands execute on the owner thread in the order in which
\* they were scheduled, over all connections (one global FIFO).
C3_MutatingFifo ==
    IsPrefix(SelectSeq(executed, IsMutating), SelectSeq(scheduled, IsMutating))

\* C4: a reply to a command whose handler failed has status "error" and
\* carries a message.
C4_HandlerFailureIsError ==
    \A c \in Conns : \A i \in 1..Len(out[c]) :
        out[c][i].failed => IsErrorResponse(out[c][i].resp)

\* C5: the reply to a modify_object command that names an object the scene
\* does not have is a JSON object with status "error" and a non-empty message.
C5_ModifyMissingIsError ==
    \A c \in Conns : \A i \in 1..Len(out[c]) :
        (Get(out[c][i].cmd, 1) = "modify_object" /\ out[c][i].missing)
            => IsErrorResponse(out[c][i].resp)

\* C9: however the bytes of a command are split over the reads, the handler
\* dispatches exactly the commands sent (never a proper prefix of one), writes
\* no reply before the command is complete, and does not close the connection
\* while a command is incomplete.
C9_FramingRoundTrip ==
    \A c \in Conns :
        ~pipelined[c] =>
            /\ IsPrefix([i \in 1..Len(ScheduledOn(c)) |-> ScheduledOn(c)[i].cmd],
                        sent[c])
            /\ Len(out[c]) <= Len(ScheduledOn(c))
            /\ (running /\ peerOpen[c] /\ (c2s[c] # <<>> \/ buffer[c] # <<>>))
                   => hpc[c] # "stopped"

\* C16: while a command of a connection waits for, or is in, its execution on
\* the main thread, the connection's handler has read nothing more: at most
\* one command of the connection is in flight, and no bytes of a next command
\* are in the handler's buffer.
C16_OneCommandInFlight ==
    \A c \in Conns :
        /\ Count(deferred, c) <= 1
        /\ Count(deferred, c) = 1 => buffer[c] = <<>>

\* C17: when the handler of one connection ends because its peer closed or
\* its read failed, the handler threads, buffers and commands of all other
\* connections, the running flag and the listening socket are as before, so
\* the others go on being accepted and served.
C17_OnlyThatHandlerEnds ==
    [][\A c \in Conns :
          (hpc[c] = "recv" /\ hpc'[c] = "stopped")
              => /\ \A d \in Conns \ {c} :
                       /\ hpc'[d] = hpc[d]
                       /\ buffer'[d] = buffer[d]
                       /\ command'[d] = command[d]
                       /\ c2s'[d] = c2s[d]
                       /\ s2c'[d] = s2c[d]
                 /\ running' = running
                 /\ listening' = listening
                 /\ deferred' = deferred]_vars

C17_Witness ==
    \E c, d \in Conns :
        /\ hpc[c] = "stopped" /\ ~peerOpen[c]
        /\ hpc[d] = "recv" /\ peerOpen[d] /\ out[d] # <<>>
        /\ Len(executed) > Len(out[d])
        /\ running /\ listening

\* C20: the handler dispatches the longest prefix of its buffered bytes that
\* is one complete JSON value and keeps only what follows it: after each of
\* its steps no prefix of its buffer is a complete command.
C20_LongestPrefixDispatched ==
    \A c \in Conns :
        \A k \in 1..Len(buffer[c]) :
            JsonLoads(SubSeq(buffer[c], 1, k)).ok # "value"

\* ------------------------------------------ claims on the connection manager
\* The call that completed last was a caller's send_command that failed with
\* a transport error.
AfterTransportFailure ==
    /\ last.op = "send_command"
    /\ last.ctx = "send"
    /\ last.outcome = "raise"
    /\ last.stage \in TransportStages

\* This step completes a caller's send_command.
SendCompletes == last' # last /\ last'.op = "send_command" /\ last'.ctx = "send"

\* C6, as claimed: after a send_command that failed with a transport error,
\* the next send_command on the manager, with the server reachable and no
\* connect() or get_maya_connection() in between, reconnects and returns the
\* command's result.
C6_NextSendReconnects ==
    [][(AfterTransportFailure /\ SendCompletes /\ listening)
           => (last'.outcome = "return" /\ sock' # 0)]_vars

\* C6, amended: after a send_command that failed with a transport error, the
\* next send_command on the manager, with no connect() or get_maya_connection()
\* in between, fails at once with the not-connected failure and opens no
\* connection, reachable server or not; the manager gets a connection again
\* only in a connect() or get_maya_connection() call.
C6_NextSendNotConnected ==
    [][/\ (AfterTransportFailure /\ SendCompletes)
             => /\ last'.outcome = "raise"
                /\ last'.stage = "not_connected"
                /\ sock' = 0
                /\ hpc' = hpc
       /\ (sock = 0 /\ sock' # 0)
             => last'.op \in {"connect", "get_maya_connection"}]_vars

C6_Witness ==
    /\ prev.op = "send_command" /\ prev.ctx = "send"
    /\ prev.outcome = "raise" /\ prev.stage \in TransportStages
    /\ last.op = "send_command" /\ last.ctx = "send"
    /\ last.stage = "not_connected"
    /\ listening

\* C7: a send_command that fails after the not-connected check leaves the
\* manager with no connection when the failure reaches the caller; a
\* send_command that returns leaves the connection it had.
C7_FailureInvalidates ==
    [][(last' # last /\ last'.op = "send_command" /\ last'.stage # "not_connected")
           => /\ last'.outcome \in {"raise", "return"}
              /\ last'.outcome = "raise" => sock' = 0
              /\ last'.outcome = "return" => (sock' = sock /\ sock # 0)]_vars

C7_Witness ==
    /\ prev.op = "send_command" /\ prev.outcome = "return" /\ prev.live
    /\ last.op = "send_command" /\ last.outcome = "raise"
    /\ last.stage = "parse"
    /\ sock = 0

\* C8: connect() never raises; with a connection held it returns true and
\* opens nothing; with none it returns true holding a new connection when the
\* server accepts it, and false holding none when the connect is refused.
C8_ConnectNeverRaises ==
    [][(last' # last /\ last'.op = "connect")
           => /\ last'.outcome = "return"
              /\ sock # 0 => (last'.value = "True" /\ sock' = sock /\ hpc' = hpc)
              /\ (sock = 0 /\ listening)
                    => /\ last'.value = "True"
                       /\ sock' # 0
                       /\ hpc[sock'] = "unused"
                       /\ hpc'[sock'] = "pending"
              /\ (sock = 0 /\ ~listening)
                    => (last'.value = "False" /\ sock' = 0 /\ hpc' = hpc)]_vars

C8_Witness ==
    /\ prev.op \in {"disconnect", "send_command"}
    /\ last.op = "connect" /\ last.value = "False"
    /\ mconn
    /\ sock = 0
    /\ ~listening

\* C10: with the server never stopped and no command of a caller failed, a
\* get_maya_connection call made with a live connection, whose probe the
\* server answered, finds the probe succeeded, keeps the manager and opens no
\* new TCP connection.
C10_ProbeReusesConnection ==
    (/\ last.op = "get_maya_connection"
     /\ last.live
     /\ ~hist.stopped
     /\ ~hist.failed
     /\ prev.op = "send_command" /\ prev.ctx = "probe"
     /\ prev.stage \notin TransportStages)
        => (prev.outcome = "return" /\ ~last.opened)

\* ------------------------------------------------ claims on the life cycle
\* This step completes a call of the given start / stop operation.
Completes(name) == slast' # slast /\ slast'.op = name

\* C13: start() on an instance that is running changes nothing: no socket is
\* bound, no accept thread is started, and running, socket and server_thread
\* keep their values.
C13_StartWhileRunningNoOp ==
    [][(Completes("start") /\ running)
           => /\ running' = running
              /\ listening' = listening
              /\ server_thread' = server_thread
              /\ loops' = loops
              /\ hpc' = hpc]_vars

C13_Witness ==
    /\ slast.op = "start" /\ slast.was
    /\ running /\ listening
    /\ server_thread # 0 /\ loops[server_thread] = "accept"

\* C14: after stop(), called in any state (never started, running, start
\* failed on the bind, stopped), running is false, socket is None and
\* server_thread is None; a stop() that follows a stop() changes neither the
\* fields nor the threads, and stop() always returns.
C14_StopIdempotent ==
    [][Completes("stop")
           => /\ ~running' /\ ~listening' /\ server_thread' = 0
              /\ slast.op = "stop"
                    => /\ running' = running
                       /\ listening' = listening
                       /\ server_thread' = server_thread
                       /\ loops' = loops
                       /\ hpc' = hpc]_vars

C14_Witness ==
    /\ slast.op = "stop" /\ slast.before = "stop"
    /\ \E l \in Loops : loops[l] = "accept"
    /\ ~running /\ ~listening /\ server_thread = 0

\* C15: of all server instances the global functions ever made, only the one
\* the global refers to can be running or listening; maya_mcp_start_server
\* called with an instance stops it before the new one starts, and
\* maya_mcp_stop_server called with none changes nothing and leaves the
\* global None.
C15_AtMostOneServer ==
    [][/\ \A i \in retired' : ~i.running /\ ~i.socket
       /\ ~gserver' => (~running' /\ ~listening')
       /\ (Completes("start_server") /\ gserver)
             => /\ retired' = retired \cup
                       {[running |-> FALSE, socket |-> FALSE, thread |-> 0]}
                /\ gserver'
       /\ (Completes("stop_server") /\ ~gserver)
             => /\ ~gserver'
                /\ UNCHANGED <<running, listening, server_thread, loops, retired,
                               hpc>>]_vars

C15_Witness ==
    /\ slast.op = "start_server" /\ slast.had /\ slast.was
    /\ gserver /\ running /\ listening
    /\ retired # {}
    /\ \E l \in Loops : loops[l] = "orphan"

\* C11: every get_maya_connection call that returns, after a fresh connect or
\* after a probe that succeeded, returns the connection manager, which is the
\* global and holds a connection; a call that fails fails with "Failed to
\* connect to Maya", the server being unreachable, and leaves the global None.
C11_ReturnsLiveManager ==
    [][(last' # last /\ last'.op = "get_maya_connection")
           => /\ last'.outcome = "return"
                    => (last'.value = "connection" /\ mconn' /\ sock' # 0)
              /\ last'.outcome = "raise"
                    => /\ last'.value = "Failed to connect to Maya"
                       /\ ~listening
                       /\ ~mconn'
                       /\ sock' = 0]_vars

\* C12: a tool call in which get_maya_connection or send_command failed
\* returns a value that describes the error; the exception does not leave
\* the tool.
C12_ToolsReturnErrors ==
    tlast.failed => (tlast.outcome = "return" /\ tlast.value = "Error")

\* C18: a read of receive_full_response that brings data ends the receive
\* with the bytes accumulated exactly when they parse as one JSON value, goes
\* on reading exactly when they are an incomplete value, and fails otherwise;
\* so the bytes returned always parse and are returned at the first read
\* after which they do.  An empty read with nothing accumulated fails with
\* "Connection closed before receiving any data"; an empty read after some
\* bytes, or a timeout, returns the accumulated bytes if they parse and fails
\* otherwise, with "Incomplete JSON response received", or "No data
\* received" when nothing was accumulated.
C18_ReceiveFullResponse ==
    [][(cpc = "recv" /\ (cpc' # "recv" \/ chunks' # chunks))
           => LET n        == Len(s2c[sock]) - Len(s2c'[sock])
                  got      == chunks \o SubSeq(s2c[sock], 1, n)
                  parses   == JsonLoads(got).ok = "value"
                  returned == cpc' # "recv" /\ last'.stage \notin TransportStages
              IN /\ returned <=> parses
                 /\ n > 0 => /\ cpc' = "recv" <=> JsonLoads(got).ok = "JSONDecodeError"
                             /\ cpc' = "recv" => chunks' = got
                             /\ (cpc' # "recv" /\ ~parses) => last'.stage = "receive"
                 /\ (n = 0 /\ ~parses)
                       => /\ last'.outcome = "raise"
                          /\ last'.value =
                                IF chunks # <<>> THEN "Incomplete JSON response received"
                                ELSE IF last'.stage = "closed"
                                THEN "Connection closed before receiving any data"
                                ELSE "No data received"]_vars

C18_Witness ==
    /\ last.op = "send_command"
    /\ last.stage = "closed"
    /\ last.value = "Incomplete JSON response received"
    /\ prev.op = "send_command" /\ prev.outcome = "return"

\* C19: a send_command called with no connection held ends in the call's own
\* step by raising "Not connected to Maya"; it writes no bytes, opens no
\* connection and leaves sock None.
C19_NotConnectedFailsFast ==
    [][/\ (cpc = "idle" /\ cpc' = "recv") => sock # 0
       /\ (cpc = "idle" /\ sock = 0 /\ last' # last /\ last'.op = "send_command")
             => /\ last'.outcome = "raise"
                /\ last'.value = "Not connected to Maya"
                /\ last'.stage = "not_connected"
                /\ sock' = 0
                /\ UNCHANGED <<c2s, s2c, hpc, peerOpen>>]_vars

C19_Witness ==
    /\ prev.op = "disconnect"
    /\ last.op = "send_command" /\ last.ctx = "send"
    /\ last.value = "Not connected to Maya"
    /\ sock = 0
    /\ listening

\* The accept-loop threads of the instance that are alive.
LiveLoops == {l \in Loops : loops[l] \in {"test", "accept"}}

\* C21: the instance never has more than one live accept loop, also after a
\* stop() followed by a start() while the loop of the first start has not
\* left yet.
C21_OneAcceptLoop == Cardinality(LiveLoops) <= 1

\* C22: once stop() has returned, and while the server is not started again,
\* no command is dispatched (decoded and deferred to the main thread) and no
\* command is executed.
C22_NothingRunsAfterStop ==
    [][(hist.stopped /\ ~running /\ ~running')
           => (scheduled' = scheduled /\ executed' = executed)]_vars

\* C23: when a send_command writes its command, the connection it writes to
\* carries nothing of an earlier command: no reply bytes in flight, no earlier
\* command in flight, in the server's buffer or waiting for execution.  So
\* whatever the call reads is the reply to its own command, and a late reply
\* to an earlier command, which arrives on a connection the manager has
\* dropped, is never returned.
C23_NoStaleReply ==
    [][(cpc = "idle" /\ cpc' = "recv")
           => /\ sock' = sock
              /\ s2c[sock] = <<>>
              /\ c2s[sock] = <<>>
              /\ buffer[sock] = <<>>
              /\ sock \notin Range(deferred)]_vars

C23_Witness ==
    /\ last.op = "send_command" /\ last.ctx = "send" /\ last.outcome = "return"
    /\ prev.op = "get_maya_connection" /\ prev.opened /\ prev.live
    /\ sock # 0
    /\ \E c \in Conns : c # sock /\ s2c[c] # <<>>

====
